---- MODULE Spec2Model ----
(***************************************************************************)
(* wifi-ctrl: the line-protocol decoder (config.rs), the scan and          *)
(* known-network listings of the station (sta/types.rs) and the typed      *)
(* records of the access point (ap/types.rs).                              *)
(*                                                                         *)
(* Text is a sequence of characters.  A character is a one-character       *)
(* string, or a token "U+XXXX" that stands for one non-ASCII character of  *)
(* a Rust &str (which is always valid UTF-8).  Bytes are 0..255.           *)
(***************************************************************************)
EXTENDS Naturals, Integers, Sequences, FiniteSets, TLC

VARIABLES
    pc,         \* position of the running call
    escaped,    \* unprintf / Deserializer: the argument `escaped`
    unescaped,  \* unprintf: the value returned
    block,      \* config::from_str: the argument `s`
    shape,      \* config::from_str: the target type T
    map,        \* config::from_str: `map`, key -> Deserializer.input
    result,     \* config::from_str: the value returned
    response,   \* ScanResult / NetworkResult ::vec_from_str: `response`
    todo,       \* vec_from_str: the lines the loop has not visited yet
    results,    \* vec_from_str: `results`
    warned,     \* vec_from_str: the lines reported through warn!
    ret,        \* vec_from_str: the value returned
    cmdq,       \* control socket: commands sent, not yet answered by the daemon
    inbox,      \* control socket: datagrams the daemon wrote, not yet received
    sent,       \* history: every command written to the socket
    received,   \* history: every datagram taken from the socket
    published,  \* Broadcast Hub: events published
    notified,   \* daemon: notifications emitted so far
    failedAt    \* history: number of commands sent when the call failed, or -1

vars == <<pc, escaped, unescaped, block, shape, map, result, response,
          todo, results, warned, ret, cmdq, inbox, sent, received, published,
          notified, failedAt>>

unprintfVars == <<escaped, unescaped>>
configVars == <<block, shape, map, result>>
listVars == <<response, todo, results, warned, ret>>
socketVars == <<cmdq, inbox, sent, received, published, notified, failedAt>>

(***************************************************************************)
(* Characters and bytes                                                    *)
(***************************************************************************)
AsciiPrintable ==
    <<" ", "!", "\"", "#", "$", "%", "&", "'", "(", ")", "*", "+", ",", "-",
      ".", "/", "0", "1", "2", "3", "4", "5", "6", "7", "8", "9", ":", ";",
      "<", "=", ">", "?", "@", "A", "B", "C", "D", "E", "F", "G", "H", "I",
      "J", "K", "L", "M", "N", "O", "P", "Q", "R", "S", "T", "U", "V", "W",
      "X", "Y", "Z", "[", "\\", "]", "^", "_", "U+0060", "a", "b", "c", "d", "e",
      "f", "g", "h", "i", "j", "k", "l", "m", "n", "o", "p", "q", "r", "s",
      "t", "u", "v", "w", "x", "y", "z", "{", "|", "}", "~">>

\* str::as_bytes of one character: its UTF-8 encoding
Utf8Table ==
    [i \in 1..Len(AsciiPrintable) |-> <<AsciiPrintable[i], <<i + 31>> >>]
    \o << <<"\t", <<9>> >>, <<"\n", <<10>> >>, <<"\r", <<13>> >>,
          <<"U+00AF", <<194, 175>> >>,        \* macron
          <<"U+30C4", <<227, 131, 132>> >> >> \* katakana tu

Char == {Utf8Table[i][1] : i \in 1..Len(Utf8Table)}

Utf8Of == [c \in Char |-> Utf8Table[CHOOSE i \in 1..Len(Utf8Table) : Utf8Table[i][1] = c][2]]

RECURSIVE as_bytes(_)
as_bytes(s) == IF s = <<>> THEN <<>> ELSE Utf8Of[Head(s)] \o as_bytes(Tail(s))

\* core::str::from_utf8(..).is_ok(): the well-formed UTF-8 byte sequences
RECURSIVE from_utf8_ok(_)
from_utf8_ok(b) ==
    IF b = <<>> THEN TRUE
    ELSE LET n == Len(b)
             cont(i) == i <= n /\ b[i] >= 128 /\ b[i] <= 191
             in(i, lo, hi) == i <= n /\ b[i] >= lo /\ b[i] <= hi
             rest(k) == from_utf8_ok(SubSeq(b, k, n))
         IN  IF b[1] <= 127 THEN rest(2)
             ELSE IF b[1] >= 194 /\ b[1] <= 223 THEN cont(2) /\ rest(3)
             ELSE IF b[1] = 224 THEN in(2, 160, 191) /\ cont(3) /\ rest(4)
             ELSE IF b[1] = 237 THEN in(2, 128, 159) /\ cont(3) /\ rest(4)
             ELSE IF b[1] >= 225 /\ b[1] <= 239 THEN cont(2) /\ cont(3) /\ rest(4)
             ELSE IF b[1] = 240 THEN in(2, 144, 191) /\ cont(3) /\ cont(4) /\ rest(5)
             ELSE IF b[1] >= 241 /\ b[1] <= 243 THEN cont(2) /\ cont(3) /\ cont(4) /\ rest(5)
             ELSE IF b[1] = 244 THEN in(2, 128, 143) /\ cont(3) /\ cont(4) /\ rest(5)
             ELSE FALSE

\* char::to_digit(16) on a byte: 0..15, or 16 when the byte is no hex digit
to_digit16(b) ==
    IF b >= 48 /\ b <= 57 THEN b - 48
    ELSE IF b >= 97 /\ b <= 102 THEN b - 87
    ELSE IF b >= 65 /\ b <= 70 THEN b - 55
    ELSE 16

\* Result: Ok(v), or Err of a ConfigError; a SerdeError carries its message,
\* a fixed text and the value formatted into it
Ok(v) == [ok |-> TRUE, val |-> v, err |-> "none", text |-> "", arg |-> <<>>]
Err(e) == [ok |-> FALSE, val |-> <<>>, err |-> e, text |-> "", arg |-> <<>>]
SerdeError(msg, a) ==
    [ok |-> FALSE, val |-> <<>>, err |-> "SerdeError", text |-> msg, arg |-> a]
Pending == Err("pending")

\* u8::from_str_radix(hex, 16) on the two bytes after \x: an optional '+'
\* sign, then hex digits (a lone sign is no number)
from_str_radix16(hex) ==
    LET d1 == to_digit16(hex[1])
        d2 == to_digit16(hex[2])
    IN  IF hex[1] = 43
        THEN IF d2 < 16 THEN Ok(d2) ELSE Err("InvalidDigit")
        ELSE IF d1 < 16 /\ d2 < 16 THEN Ok(16 * d1 + d2) ELSE Err("InvalidDigit")

(***************************************************************************)
(* config::unprintf                                                        *)
(***************************************************************************)
\* the loop of unprintf: `i` is the iterator's position in `bytes`, `acc`
\* the vector `unescaped`
RECURSIVE unprintf_loop(_, _, _)
unprintf_loop(bytes, i, acc) ==
    LET n == Len(bytes) IN
    IF i > n THEN Ok(acc)
    ELSE IF bytes[i] # 92 THEN unprintf_loop(bytes, i + 1, Append(acc, bytes[i]))
    ELSE IF i + 1 > n THEN Err("IncompleteEscape")
    ELSE LET c == bytes[i + 1] IN
         IF c = 110 THEN unprintf_loop(bytes, i + 2, Append(acc, 10))
         ELSE IF c = 114 THEN unprintf_loop(bytes, i + 2, Append(acc, 13))
         ELSE IF c = 116 THEN unprintf_loop(bytes, i + 2, Append(acc, 9))
         ELSE IF c = 101 THEN unprintf_loop(bytes, i + 2, Append(acc, 27))
         ELSE IF c = 120 THEN
              IF i + 3 > n THEN Err("IncompleteEscape")
              ELSE LET hex == <<bytes[i + 2], bytes[i + 3]>> IN
                   IF ~from_utf8_ok(hex) THEN Err("InvalidEscape")
                   ELSE IF ~from_str_radix16(hex).ok THEN Err("InvalidEscape")
                   ELSE unprintf_loop(bytes, i + 4,
                                      Append(acc, from_str_radix16(hex).val))
         ELSE unprintf_loop(bytes, i + 2, Append(acc, c))

unprintf(s) ==
    LET r == unprintf_loop(as_bytes(s), 1, <<>>) IN
    IF ~r.ok THEN r
    ELSE IF from_utf8_ok(r.val) THEN r
    ELSE Err("NonUtf8Escape")

(***************************************************************************)
(* Bounded inputs                                                          *)
(***************************************************************************)
MaxEscLen == 4

RECURSIVE SeqsUpTo(_, _)
SeqsUpTo(S, n) ==
    IF n = 0 THEN {<<>>}
    ELSE LET shorter == SeqsUpTo(S, n - 1)
         IN  shorter \cup {Append(s, c) : s \in shorter, c \in S}

EscChar == {"\\", "x", "n", "4", "f", "G", "+", "U+00AF"}

(***************************************************************************)
(* Specification of unprintf                                               *)
(***************************************************************************)
InitUnprintf ==
    /\ pc = "unprintf"
    /\ escaped \in SeqsUpTo(EscChar, MaxEscLen)
    /\ unescaped = Pending
    /\ block = <<>> /\ shape = <<>> /\ map = <<>>
    /\ result = Pending
    /\ response = <<>> /\ todo = <<>> /\ results = <<>> /\ warned = <<>>
    /\ ret = Pending
    /\ cmdq = <<>> /\ inbox = <<>> /\ sent = <<>> /\ received = <<>>
    /\ published = <<>> /\ notified = 0 /\ failedAt = -1

CallUnprintf ==
    /\ pc = "unprintf"
    /\ unescaped' = unprintf(escaped)
    /\ pc' = "done"
    /\ UNCHANGED <<escaped, configVars, listVars, socketVars>>

NextUnprintf == CallUnprintf

SpecUnprintf == InitUnprintf /\ [][NextUnprintf]_vars

(***************************************************************************)
(* C7                                                                      *)
(***************************************************************************)
\* the bytes of the hexadecimal digits 0-9, a-f, A-F
HexDigitByte == (48..57) \cup (97..102) \cup (65..70)

\* what the escapes of the bytes `b` are by the rule of C7, reading from byte
\* i (the daemon escapes byte by byte, so a character after \x is a byte):
\* the first escape that is cut short or is no \xHH decides
RECURSIVE EscapeRule(_, _)
EscapeRule(b, i) ==
    IF i > Len(b) THEN "string"
    ELSE IF b[i] # 92 THEN EscapeRule(b, i + 1)
    ELSE IF i = Len(b) THEN "IncompleteEscape"
    ELSE IF b[i + 1] # 120 THEN EscapeRule(b, i + 2)
    ELSE IF i + 3 > Len(b) THEN "IncompleteEscape"
    ELSE IF b[i + 2] \in HexDigitByte /\ b[i + 3] \in HexDigitByte
         THEN EscapeRule(b, i + 4)
    ELSE "InvalidEscape"

\* C7: unprintf returns IncompleteEscape when the input ends in a lone
\* backslash or has fewer than two characters after a \x, InvalidEscape when
\* the two characters after a \x are not both hexadecimal digits, and a
\* string only when every \x is followed by two hexadecimal digits.
C7_EscapeErrors ==
    pc = "done" =>
        /\ EscapeRule(as_bytes(escaped), 1) = "IncompleteEscape"
               => unescaped.err = "IncompleteEscape"
        /\ EscapeRule(as_bytes(escaped), 1) = "InvalidEscape"
               => unescaped.err = "InvalidEscape"
        /\ unescaped.ok => EscapeRule(as_bytes(escaped), 1) = "string"

(***************************************************************************)
(* str and integer primitives used by config::from_str                     *)
(***************************************************************************)
WhiteSpace == {" ", "\t", "\n", "\r"}

\* position of the first / last occurrence of character c in s, or 0
find(s, c) ==
    IF \E i \in 1..Len(s) : s[i] = c
    THEN CHOOSE i \in 1..Len(s) : s[i] = c /\ \A j \in 1..(i - 1) : s[j] # c
    ELSE 0

rfind(s, c) ==
    IF \E i \in 1..Len(s) : s[i] = c
    THEN CHOOSE i \in 1..Len(s) : s[i] = c /\ \A j \in (i + 1)..Len(s) : s[j] # c
    ELSE 0

\* a split_once that splits at the last occurrence instead of the first
split_once_last(s, c) ==
    LET i == rfind(s, c) IN
    IF i = 0 THEN [some |-> FALSE, l |-> <<>>, r |-> <<>>]
    ELSE [some |-> TRUE, l |-> SubSeq(s, 1, i - 1), r |-> SubSeq(s, i + 1, Len(s))]

\* str::split_once / str::rsplit_once: None is [some |-> FALSE]
split_once(s, c) ==
    LET i == find(s, c) IN
    IF i = 0 THEN [some |-> FALSE, l |-> <<>>, r |-> <<>>]
    ELSE [some |-> TRUE, l |-> SubSeq(s, 1, i - 1), r |-> SubSeq(s, i + 1, Len(s))]

rsplit_once(s, c) ==
    LET i == rfind(s, c) IN
    IF i = 0 THEN [some |-> FALSE, l |-> <<>>, r |-> <<>>]
    ELSE [some |-> TRUE, l |-> SubSeq(s, 1, i - 1), r |-> SubSeq(s, i + 1, Len(s))]

\* str::trim
RECURSIVE trim_start(_)
trim_start(s) ==
    IF s # <<>> /\ Head(s) \in WhiteSpace THEN trim_start(Tail(s)) ELSE s

RECURSIVE trim_end(_)
trim_end(s) ==
    IF s # <<>> /\ s[Len(s)] \in WhiteSpace
    THEN trim_end(SubSeq(s, 1, Len(s) - 1)) ELSE s

trim(s) == trim_end(trim_start(s))

\* str::lines: split after every \n; the \n, and a \r before it, are dropped
RECURSIVE lines(_)
lines(s) ==
    IF s = <<>> THEN <<>>
    ELSE LET i == find(s, "\n") IN
         IF i = 0 THEN <<s>>
         ELSE LET l == SubSeq(s, 1, i - 1)
                  line == IF l # <<>> /\ l[Len(l)] = "\r"
                          THEN SubSeq(l, 1, Len(l) - 1) ELSE l
              IN  <<line>> \o lines(SubSeq(s, i + 1, Len(s)))

Digit == {"0", "1", "2", "3", "4", "5", "6", "7", "8", "9"}

DigitVal(c) == CHOOSE d \in 0..9 : AsciiPrintable[17 + d] = c

\* a digit string without its leading zeros ("0" for zero)
RECURSIVE canonical(_)
canonical(d) ==
    IF Len(d) > 1 /\ Head(d) = "0" THEN canonical(Tail(d)) ELSE d

\* a > b for canonical digit strings
RECURSIVE digits_gt(_, _)
digits_gt(a, b) ==
    IF Len(a) # Len(b) THEN Len(a) > Len(b)
    ELSE IF a = <<>> THEN FALSE
    ELSE IF Head(a) # Head(b) THEN DigitVal(Head(a)) > DigitVal(Head(b))
    ELSE digits_gt(Tail(a), Tail(b))

\* the integer types: signedness, largest value, largest magnitude below zero
IntTypes ==
    [u32 |-> [signed |-> FALSE,
              max |-> <<"4","2","9","4","9","6","7","2","9","5">>,
              min |-> <<"0">>],
     u64 |-> [signed |-> FALSE,
              max |-> <<"1","8","4","4","6","7","4","4","0","7","3","7","0",
                        "9","5","5","1","6","1","5">>,
              min |-> <<"0">>],
     usize |-> [signed |-> FALSE,
              max |-> <<"1","8","4","4","6","7","4","4","0","7","3","7","0",
                        "9","5","5","1","6","1","5">>,
              min |-> <<"0">>],
     i32 |-> [signed |-> TRUE,
              max |-> <<"2","1","4","7","4","8","3","6","4","7">>,
              min |-> <<"2","1","4","7","4","8","3","6","4","8">>],
     isize |-> [signed |-> TRUE,
              max |-> <<"9","2","2","3","3","7","2","0","3","6","8","5","4",
                        "7","7","5","8","0","7">>,
              min |-> <<"9","2","2","3","3","7","2","0","3","6","8","5","4",
                        "7","7","5","8","0","8">>]]

Int_(neg, d) == [t |-> "Int", v |-> [neg |-> neg /\ d # <<"0">>, digits |-> d]]

\* the digits of an integer: each character is checked to be a digit, then
\* the value read so far is checked to fit the type
RECURSIVE parse_digits(_, _, _, _)
parse_digits(d, k, neg, ty) ==
    IF k > Len(d) THEN Ok(Int_(neg, canonical(d)))
    ELSE IF d[k] \notin Digit THEN SerdeError("invalid digit found in string", <<>>)
    ELSE IF digits_gt(canonical(SubSeq(d, 1, k)),
                      IF neg THEN IntTypes[ty].min ELSE IntTypes[ty].max)
    THEN SerdeError(IF neg THEN "number too small to fit in target type"
                    ELSE "number too large to fit in target type", <<>>)
    ELSE parse_digits(d, k + 1, neg, ty)

\* <integer type>::from_str, its ParseIntError passed to ConfigError::custom
parse_int(s, ty) ==
    IF s = <<>> THEN SerdeError("cannot parse integer from empty string", <<>>)
    ELSE IF s = <<"+">> \/ s = <<"-">>
    THEN SerdeError("invalid digit found in string", <<>>)
    ELSE IF Head(s) = "+" THEN parse_digits(Tail(s), 1, FALSE, ty)
    ELSE IF Head(s) = "-" /\ IntTypes[ty].signed
    THEN parse_digits(Tail(s), 1, TRUE, ty)
    ELSE parse_digits(s, 1, FALSE, ty)

\* a usize as a natural number of the model (indices beyond 9 digits are
\* larger than any length the model reaches)
RECURSIVE to_nat(_)
to_nat(d) ==
    IF d = <<>> THEN 0
    ELSE IF Len(d) > 9 THEN 999999999
    ELSE 10 * to_nat(SubSeq(d, 1, Len(d) - 1)) + DigitVal(d[Len(d)])

(***************************************************************************)
(* config::from_str: the line loop                                         *)
(***************************************************************************)
\* map.entry(k).or_default().input
entry_input(m, k) == IF k \in DOMAIN m THEN m[k] ELSE <<>>

\* an index check that refuses a gap but lets an index be supplied again
index_rejected_gap_only(len, i) == len < i

\* values.len() != i
index_rejected(len, i) == len # i

\* values.push(v)
insert(m, k, v) ==
    [x \in DOMAIN m \cup {k} |-> IF x = k THEN Append(entry_input(m, k), v) ELSE m[x]]

\* one iteration of the loop over s.trim().lines(): Ok(map), or the error
\* returned
from_str_line(m, line) ==
    LET kv == split_once(line, "=") IN
    IF ~kv.some THEN Err("MissingDelimterEqual")
    ELSE LET ki == split_once(kv.l, "[") IN
         IF ~ki.some
         THEN IF index_rejected(Len(entry_input(m, trim(kv.l))), 0)
              THEN SerdeError("Duplicate key", <<>>)
              ELSE Ok(insert(m, trim(kv.l), kv.r))
         ELSE LET ic == rsplit_once(ki.r, "]") IN
              IF ~(ic.some /\ ic.r = <<>>) THEN SerdeError("invalid key", <<>>)
              ELSE LET i == parse_int(ic.l, "usize") IN
                   IF ~i.ok THEN i
                   ELSE IF index_rejected(Len(entry_input(m, trim(ki.l))),
                                          to_nat(i.val.v.digits))
                   THEN SerdeError("Duplicate key", <<>>)
                   ELSE Ok(insert(m, trim(ki.l), kv.r))

RECURSIVE from_str_lines(_, _)
from_str_lines(m, ls) ==
    IF ls = <<>> THEN Ok(m)
    ELSE LET r == from_str_line(m, Head(ls)) IN
         IF r.ok THEN from_str_lines(r.val, Tail(ls)) ELSE r

(***************************************************************************)
(* impl de::Deserializer for Deserializer                                  *)
(***************************************************************************)
\* the values a field decodes to
String_(bytes) == [t |-> "String", v |-> bytes]
Bool_(b) == [t |-> "bool", v |-> b]
None_ == [t |-> "None", v |-> <<>>]
Some_(x) == [t |-> "Some", v |-> x]
Vec_(xs) == [t |-> "Vec", v |-> xs]

\* an `only` that yields the first of several values
only_first(input) ==
    IF Len(input) >= 1 THEN Ok(input[1])
    ELSE SerdeError("did not expect seq", <<>>)

\* Deserializer::only
only(input) ==
    IF Len(input) = 1 THEN Ok(input[1])
    ELSE SerdeError("did not expect seq", <<>>)

\* deserialize_string (and deserialize_any, to which str, identifier and
\* ignored_any are forwarded)
deserialize_string(input) ==
    IF ~only(input).ok THEN only(input)
    ELSE LET u == unprintf(only(input).val) IN
         IF u.ok THEN Ok(String_(u.val)) ELSE u

BoolTrue == {<<"t","r","u","e">>, <<"T","R","U","E">>,
             <<"e","n","a","b","l","e","d">>, <<"E","N","A","B","L","E","D">>}
BoolFalse == {<<"f","a","l","s","e">>, <<"F","A","L","S","E">>,
              <<"d","i","s","a","b","l","e","d">>,
              <<"D","I","S","A","B","L","E","D">>}

deserialize_bool(input) ==
    IF ~only(input).ok THEN only(input)
    ELSE LET s == only(input).val IN
         IF s \in BoolTrue THEN Ok(Bool_(TRUE))
         ELSE IF s \in BoolFalse THEN Ok(Bool_(FALSE))
         ELSE SerdeError("Invalid bool ", s)

\* a forward_to_from_str that falls back to 0 when the value does not parse
forward_to_from_str_or_default(input, ty) ==
    IF ~only(input).ok THEN only(input)
    ELSE IF parse_int(only(input).val, ty).ok THEN parse_int(only(input).val, ty)
    ELSE Ok([t |-> "Int", v |-> [neg |-> FALSE, digits |-> <<"0">>]])

\* forward_to_from_str!: deserialize_i32, deserialize_u32, deserialize_u64
forward_to_from_str(input, ty) ==
    IF ~only(input).ok THEN only(input)
    ELSE parse_int(only(input).val, ty)

\* T::deserialize for the scalar types String, bool and the integers
deserialize_scalar(input, base) ==
    IF base = "String" THEN deserialize_string(input)
    ELSE IF base = "bool" THEN deserialize_bool(input)
    ELSE forward_to_from_str(input, base)

\* a deserialize_option without the test for the empty value
deserialize_option_always_some(input, base) ==
    IF ~only(input).ok THEN only(input)
    ELSE LET r == deserialize_scalar(input, base) IN
         IF r.ok THEN Ok(Some_(r.val)) ELSE r

deserialize_option(input, base) ==
    IF ~only(input).ok THEN only(input)
    ELSE IF only(input).val = <<>> THEN Ok(None_)
    ELSE LET r == deserialize_scalar(input, base) IN
         IF r.ok THEN Ok(Some_(r.val)) ELSE r

\* deserialize_seq: every value becomes a Deserializer of its own; the
\* first element that fails to decode fails the sequence
RECURSIVE deserialize_elems(_, _, _)
deserialize_elems(input, base, acc) ==
    IF input = <<>> THEN Ok(Vec_(acc))
    ELSE LET r == deserialize_scalar(<<Head(input)>>, base) IN
         IF r.ok THEN deserialize_elems(Tail(input), base, Append(acc, r.val))
         ELSE r

deserialize_seq(input, base) == deserialize_elems(input, base, <<>>)

\* the type of a field: a scalar, Option<scalar> or Vec<scalar>
Scalar(base) == [ctor |-> "Scalar", base |-> base]
Option(base) == [ctor |-> "Option", base |-> base]
Vec(base) == [ctor |-> "Vec", base |-> base]

deserialize(input, ty) ==
    IF ty.ctor = "Option" THEN deserialize_option(input, ty.base)
    ELSE IF ty.ctor = "Vec" THEN deserialize_seq(input, ty.base)
    ELSE deserialize_scalar(input, ty.base)

(***************************************************************************)
(* #[derive(Deserialize)] on a struct, fed by MapDeserializer              *)
(***************************************************************************)
\* a field: its name, its type, and whether it is #[serde(default)]
Field(name, ty, default) == [name |-> name, ty |-> ty, default |-> default]

FieldNames(T) == {T[i].name : i \in 1..Len(T)}
FieldOf(T, name) == T[CHOOSE i \in 1..Len(T) : T[i].name = name]

\* Default::default() of the types that carry #[serde(default)]
default_value(ty) ==
    IF ty.base = "String" THEN String_(<<>>) ELSE Int_(FALSE, <<"0">>)

\* next_value of one entry of the map: a field of T is decoded at its type,
\* any other key as IgnoredAny, which is forwarded to deserialize_any
entry_value(T, m, k) ==
    IF k \in FieldNames(T) THEN deserialize(m[k], FieldOf(T, k).ty)
    ELSE deserialize_string(m[k])

\* the fields left unset by the map, in declaration order: an Option is
\* None, a #[serde(default)] field its default, any other is an error
missing_fields(T, m) ==
    {i \in 1..Len(T) :
        /\ T[i].name \notin DOMAIN m
        /\ T[i].ty.ctor # "Option"
        /\ ~T[i].default}

field_value(T, m, name) ==
    IF name \in DOMAIN m THEN entry_value(T, m, name).val
    ELSE IF FieldOf(T, name).ty.ctor = "Option" THEN None_
    ELSE default_value(FieldOf(T, name).ty)

\* T::deserialize(MapDeserializer::new(map.into_iter())): the entries are
\* visited in the HashMap's order, which is arbitrary, and the first entry
\* that fails to decode ends the call with its error
deserialize_struct(T, m) ==
    LET failing == {k \in DOMAIN m : ~entry_value(T, m, k).ok}
        missing == missing_fields(T, m)
    IN  IF failing # {} THEN {entry_value(T, m, k) : k \in failing}
        ELSE IF missing # {}
        THEN {SerdeError("missing field ",
                         T[CHOOSE i \in missing : \A j \in missing : i <= j].name)}
        ELSE {Ok([name \in FieldNames(T) |-> field_value(T, m, name)])}

(***************************************************************************)
(* The record types decoded by config::from_str                            *)
(***************************************************************************)
k_foo == <<"f","o","o">>
k_bar == <<"b","a","r">>
k_bssid == <<"b","s","s","i","d">>
k_ssid == <<"s","s","i","d">>
k_wps_state == <<"w","p","s","_","s","t","a","t","e">>
k_wpa == <<"w","p","a">>
k_key_mgmt == <<"k","e","y","_","m","g","m","t">>
k_group_cipher == <<"g","r","o","u","p","_","c","i","p","h","e","r">>
k_rsn_pairwise_cipher == <<"r","s","n","_","p","a","i","r","w","i","s","e",
                           "_","c","i","p","h","e","r">>
k_wpa_pairwise_cipher == <<"w","p","a","_","p","a","i","r","w","i","s","e",
                           "_","c","i","p","h","e","r">>
k_state == <<"s","t","a","t","e">>
k_freq == <<"f","r","e","q">>
k_num_sta == <<"n","u","m","_","s","t","a">>
k_cac_time_left_seconds == <<"c","a","c","_","t","i","m","e","_","l","e","f",
                             "t","_","s","e","c","o","n","d","s">>
k_ht_caps_info == <<"h","t","_","c","a","p","s","_","i","n","f","o">>
k_ht_mcs_bitmask == <<"h","t","_","m","c","s","_","b","i","t","m","a","s",
                      "k">>

\* ap::Status
Status ==
    <<Field(<<"s","t","a","t","e">>,
          Scalar("String"), FALSE),
      Field(<<"p","h","y">>,
          Scalar("String"), FALSE),
      Field(<<"f","r","e","q">>,
          Scalar("u32"), FALSE),
      Field(<<"n","u","m","_","s","t","a","_","n","o","n","_","e","r","p">>,
          Scalar("u64"), FALSE),
      Field(<<"n","u","m","_","s","t","a","_","n","o","_","s","h","o","r","t",
            "_","s","l","o","t","_","t","i","m","e">>,
          Scalar("u64"), FALSE),
      Field(<<"n","u","m","_","s","t","a","_","n","o","_","s","h","o","r","t",
            "_","p","r","e","a","m","b","l","e">>,
          Scalar("u64"), FALSE),
      Field(<<"o","l","b","c">>,
          Scalar("u64"), FALSE),
      Field(<<"n","u","m","_","s","t","a","_","h","t","_","n","o","_","g","f">>,
          Scalar("u64"), FALSE),
      Field(<<"n","u","m","_","s","t","a","_","n","o","_","h","t">>,
          Scalar("u64"), FALSE),
      Field(<<"n","u","m","_","s","t","a","_","h","t","_","2","0","_","m","h",
            "z">>,
          Scalar("u64"), FALSE),
      Field(<<"n","u","m","_","s","t","a","_","h","t","4","0","_","i","n","t",
            "o","l","e","r","a","n","t">>,
          Scalar("u64"), FALSE),
      Field(<<"o","l","b","c","_","h","t">>,
          Scalar("u64"), FALSE),
      Field(<<"h","t","_","o","p","_","m","o","d","e">>,
          Scalar("String"), FALSE),
      Field(<<"c","a","c","_","t","i","m","e","_","s","e","c","o","n","d","s">>,
          Scalar("u64"), FALSE),
      Field(<<"c","a","c","_","t","i","m","e","_","l","e","f","t","_","s","e",
            "c","o","n","d","s">>,
          Option("u64"), FALSE),
      Field(<<"c","h","a","n","n","e","l">>,
          Scalar("u64"), FALSE),
      Field(<<"s","e","c","o","n","d","a","r","y","_","c","h","a","n","n","e",
            "l">>,
          Scalar("u64"), FALSE),
      Field(<<"i","e","e","e","8","0","2","1","1","n">>,
          Scalar("u64"), FALSE),
      Field(<<"i","e","e","e","8","0","2","1","1","a","c">>,
          Scalar("u64"), FALSE),
      Field(<<"i","e","e","e","8","0","2","1","1","a","x">>,
          Scalar("u64"), FALSE),
      Field(<<"b","e","a","c","o","n","_","i","n","t">>,
          Scalar("u64"), FALSE),
      Field(<<"d","t","i","m","_","p","e","r","i","o","d">>,
          Scalar("u64"), FALSE),
      Field(<<"h","t","_","c","a","p","s","_","i","n","f","o">>,
          Option("String"), FALSE),
      Field(<<"h","t","_","m","c","s","_","b","i","t","m","a","s","k">>,
          Option("String"), FALSE),
      Field(<<"s","u","p","p","o","r","t","e","d","_","r","a","t","e","s">>,
          Scalar("String"), TRUE),
      Field(<<"m","a","x","_","t","x","p","o","w","e","r">>,
          Scalar("u64"), FALSE),
      Field(<<"b","s","s">>,
          Vec("String"), FALSE),
      Field(<<"b","s","s","i","d">>,
          Vec("String"), FALSE),
      Field(<<"s","s","i","d">>,
          Vec("String"), FALSE),
      Field(<<"n","u","m","_","s","t","a">>,
          Vec("u32"), FALSE)>>

\* ap::Config
Config ==
    <<Field(<<"b","s","s","i","d">>,
          Scalar("String"), FALSE),
      Field(<<"s","s","i","d">>,
          Scalar("String"), FALSE),
      Field(<<"w","p","s","_","s","t","a","t","e">>,
          Scalar("String"), FALSE),
      Field(<<"w","p","a">>,
          Scalar("i32"), TRUE),
      Field(<<"k","e","y","_","m","g","m","t">>,
          Option("String"), FALSE),
      Field(<<"g","r","o","u","p","_","c","i","p","h","e","r">>,
          Option("String"), FALSE),
      Field(<<"r","s","n","_","p","a","i","r","w","i","s","e","_","c","i","p",
            "h","e","r">>,
          Option("String"), FALSE),
      Field(<<"w","p","a","_","p","a","i","r","w","i","s","e","_","c","i","p",
            "h","e","r">>,
          Option("String"), FALSE)>>

\* a record with one field `foo` of type ty and an optional string `bar`:
\* from_str is generic in T, and these records put each deserialize_*
\* method behind the same key
Probe(ty) == <<Field(k_foo, ty, FALSE), Field(k_bar, Option("String"), FALSE)>>

ProbeTypes ==
    {Scalar("String"), Scalar("u32"), Scalar("i32"), Scalar("bool"),
     Option("String"), Option("u64"), Vec("String"), Vec("u32")}

(***************************************************************************)
(* Inputs of config::from_str                                              *)
(***************************************************************************)
MaxLines == 3

\* lines of a block: plain and indexed keys, a blank line, a line without
\* '=', keys with a bad index, an index with a sign, and a value that holds
\* '[' and '='
LinePool ==
    {<<"f","o","o","=","a">>,
     <<"f","o","o","[","0","]","=","b">>,
     <<"f","o","o","[","1","]","=","c">>,
     <<"f","o","o","[","2","]","=","d">>,
     <<>>,
     <<"f","o","o">>,
     <<"f","o","o","[","x","]","=","a">>,
     <<"f","o","o","[","0","]","x","=","a">>,
     <<"f","o","o","[","+","1","]","=","e">>,
     <<"b","a","r","=","[","=">>}

RECURSIVE join(_)
join(ls) ==
    IF ls = <<>> THEN <<>>
    ELSE IF Len(ls) = 1 THEN ls[1]
    ELSE ls[1] \o <<"\n">> \o join(Tail(ls))

RECURSIVE concat(_)
concat(ls) == IF ls = <<>> THEN <<>> ELSE Head(ls) \o concat(Tail(ls))

Input(T, s) == [T |-> T, s |-> s]

IndexInputs ==
    {Input(Probe(ty), join(ls)) :
        ty \in {Vec("String"), Scalar("String")},
        ls \in SeqsUpTo(LinePool, MaxLines)}

\* raw values of the key foo
CoerceValues ==
    {<<"a">>,
     <<"1","2">>,
     <<"-","3">>,
     <<"+","5">>,
     <<"4","2","9","4","9","6","7","2","9","6">>,
     <<"1","x">>,
     <<>>,
     <<"m","a","y","b","e">>,
     <<"E","n","a","b","l","e","d">>,
     <<"t","r","u","e">>,
     <<"T","R","U","E">>,
     <<"e","n","a","b","l","e","d">>,
     <<"E","N","A","B","L","E","D">>,
     <<"f","a","l","s","e">>,
     <<"F","A","L","S","E">>,
     <<"d","i","s","a","b","l","e","d">>,
     <<"D","I","S","A","B","L","E","D">>,
     <<"\\","x","4","1">>,
     <<"\\">>}

CoerceBlocks ==
    UNION {{k_foo \o <<"=">> \o v,
            k_foo \o <<"[","0","]","=">> \o v,
            k_foo \o <<"=">> \o v \o <<"\n">> \o k_foo \o <<"[","1","]","=","1">>,
            k_foo \o <<"[","0","]","=">> \o v \o <<"\n">> \o k_foo
                \o <<"[","1","]","=","1">>} : v \in CoerceValues}

CoerceInputs == {Input(Probe(ty), b) : ty \in ProbeTypes, b \in CoerceBlocks}

\* hostapd's GET_CONFIG dump: each key is left out or has one of these lines
ConfigLines ==
    <<{<<"b","s","s","i","d","=","c","c",":","7","b","\n">>},
      {<<"s","s","i","d","=","W","i","-","F","i","\n">>},
      {<<"w","p","s","_","s","t","a","t","e","=","d","i","s","a","b","l","e",
          "d","\n">>},
      {<<"w","p","a","=","2","\n">>,
       <<"w","p","a","=","x","\n">>},
      {<<"k","e","y","_","m","g","m","t","=","\n">>,
       <<"k","e","y","_","m","g","m","t","=","W","P","A","-","P","S","K",
          "\n">>},
      {<<"g","r","o","u","p","_","c","i","p","h","e","r","=","\n">>,
       <<"g","r","o","u","p","_","c","i","p","h","e","r","=","C","C","M","P",
          "\n">>},
      {<<"r","s","n","_","p","a","i","r","w","i","s","e","_","c","i","p","h",
          "e","r","=","\n">>,
       <<"r","s","n","_","p","a","i","r","w","i","s","e","_","c","i","p","h",
          "e","r","=","C","C","M","P","\n">>},
      {<<"w","p","a","_","p","a","i","r","w","i","s","e","_","c","i","p","h",
          "e","r","=","\n">>,
       <<"w","p","a","_","p","a","i","r","w","i","s","e","_","c","i","p","h",
          "e","r","=","C","C","M","P","\n">>}>>

RECURSIVE Products(_)
Products(choices) ==
    IF choices = <<>> THEN {<<>>}
    ELSE {<<c>> \o p : c \in Head(choices) \cup {<<>>}, p \in Products(Tail(choices))}

\* the responses of the tests of ap::types
ConfigTests ==
    {<<"\n","b","s","s","i","d","=","c","c",":","7","b",":","5","c",":","1",
        "a",":","d","2",":","2","1","\n","s","s","i","d","=","\\","x","c","2",
        "\\","x","a","f","\\","\\","_","(","\\","x","e","3","\\","x","8","3",
        "\\","x","8","4",")","_","/","\\","x","c","2","\\","x","a","f","\n",
        "w","p","s","_","s","t","a","t","e","=","d","i","s","a","b","l","e",
        "d","\n","w","p","a","=","2","\n","k","e","y","_","m","g","m","t","=",
        "W","P","A","-","P","S","K","\n","g","r","o","u","p","_","c","i","p",
        "h","e","r","=","C","C","M","P","\n","r","s","n","_","p","a","i","r",
        "w","i","s","e","_","c","i","p","h","e","r","=","C","C","M","P","\n",
        " "," "," "," "," "," "," "," ">>,
     <<"\n","b","s","s","i","d","=","c","c",":","7","b",":","5","c",":","1",
        "a",":","d","2",":","2","1","\n","s","s","i","d","=","M","Y","_","S",
        "S","I","D","\n","w","p","s","_","s","t","a","t","e","=","n","o","t",
        " ","c","o","n","f","i","g","u","r","e","d","\n","p","a","s","s","p",
        "h","r","a","s","e","=","M","Y","_","P","A","S","S","P","H","R","A",
        "S","E","\n","p","s","k","=","8","d","b","b","e","4","2","c","b","4",
        "4","f","2","1","0","8","8","f","b","b","9","c","f","b","f","2","4",
        "d","c","9","b","3","9","7","8","7","d","6","0","2","6","d","4","3",
        "6","b","0","1","b","3","a","c","7","d","3","4","a","f","b","4","4",
        "1","6","d","\n","w","p","a","=","2","\n","k","e","y","_","m","g","m",
        "t","=","W","P","A","-","P","S","K","\n","g","r","o","u","p","_","c",
        "i","p","h","e","r","=","C","C","M","P","\n","r","s","n","_","p","a",
        "i","r","w","i","s","e","_","c","i","p","h","e","r","=","C","C","M",
        "P","\n"," "," "," "," "," "," "," "," ">>,
     <<"\n","b","s","s","i","d","=","c","c",":","7","b",":","5","c",":","1",
        "a",":","d","2",":","2","1","\n","s","s","i","d","=","M","Y","_","S",
        "S","I","D","\n","w","p","s","_","s","t","a","t","e","=","c","o","n",
        "f","i","g","u","r","e","d","\n","p","a","s","s","p","h","r","a","s",
        "e","=","M","Y","_","P","A","S","S","P","H","R","A","S","E","\n","p",
        "s","k","=","8","d","b","b","e","4","2","c","b","4","4","f","2","1",
        "0","8","8","f","b","b","9","c","f","b","f","2","4","d","c","9","b",
        "3","9","7","8","7","d","6","0","2","6","d","4","3","6","b","0","1",
        "b","3","a","c","7","d","3","4","a","f","b","4","4","1","6","d","\n",
        "w","p","a","=","2","\n","k","e","y","_","m","g","m","t","=","W","P",
        "A","-","P","S","K","\n","g","r","o","u","p","_","c","i","p","h","e",
        "r","=","C","C","M","P","\n","r","s","n","_","p","a","i","r","w","i",
        "s","e","_","c","i","p","h","e","r","=","C","C","M","P","\n"," "," ",
        " "," "," "," "," "," ">>,
     <<"\n","b","s","s","i","d","=","c","c",":","7","b",":","5","c",":","1",
        "a",":","d","2",":","2","1","\n","s","s","i","d","=","W","i","-","F",
        "i","\n","w","p","s","_","s","t","a","t","e","=","d","i","s","a","b",
        "l","e","d","\n"," "," "," "," "," "," "," "," ">>}

ConfigInputs ==
    {Input(Config, concat(ls)) : ls \in Products(ConfigLines)}
    \cup {Input(Config, t) : t \in ConfigTests}

\* hostapd's STATUS dump of the doc test of ap::Status::from_response
StatusDocLines ==
    <<<<"s","t","a","t","e","=","E","N","A","B","L","E","D">>,
      <<"p","h","y","=","p","h","y","0">>,
      <<"f","r","e","q","=","2","4","3","7">>,
      <<"n","u","m","_","s","t","a","_","n","o","n","_","e","r","p","=",
          "0">>,
      <<"n","u","m","_","s","t","a","_","n","o","_","s","h","o","r","t","_",
          "s","l","o","t","_","t","i","m","e","=","0">>,
      <<"n","u","m","_","s","t","a","_","n","o","_","s","h","o","r","t","_",
          "p","r","e","a","m","b","l","e","=","0">>,
      <<"o","l","b","c","=","0">>,
      <<"n","u","m","_","s","t","a","_","h","t","_","n","o","_","g","f","=",
          "0">>,
      <<"n","u","m","_","s","t","a","_","n","o","_","h","t","=","0">>,
      <<"n","u","m","_","s","t","a","_","h","t","_","2","0","_","m","h","z",
          "=","0">>,
      <<"n","u","m","_","s","t","a","_","h","t","4","0","_","i","n","t","o",
          "l","e","r","a","n","t","=","0">>,
      <<"o","l","b","c","_","h","t","=","0">>,
      <<"h","t","_","o","p","_","m","o","d","e","=","0","x","0">>,
      <<"c","a","c","_","t","i","m","e","_","s","e","c","o","n","d","s","=",
          "0">>,
      <<"c","a","c","_","t","i","m","e","_","l","e","f","t","_","s","e","c",
          "o","n","d","s","=","N","/","A">>,
      <<"c","h","a","n","n","e","l","=","6">>,
      <<"e","d","m","g","_","e","n","a","b","l","e","=","0">>,
      <<"e","d","m","g","_","c","h","a","n","n","e","l","=","0">>,
      <<"s","e","c","o","n","d","a","r","y","_","c","h","a","n","n","e","l",
          "=","0">>,
      <<"i","e","e","e","8","0","2","1","1","n","=","0">>,
      <<"i","e","e","e","8","0","2","1","1","a","c","=","0">>,
      <<"i","e","e","e","8","0","2","1","1","a","x","=","0">>,
      <<"b","e","a","c","o","n","_","i","n","t","=","1","0","0">>,
      <<"d","t","i","m","_","p","e","r","i","o","d","=","2">>,
      <<"s","u","p","p","o","r","t","e","d","_","r","a","t","e","s","=","0",
          "2"," ","0","4"," ","0","b"," ","1","6"," ","0","c"," ","1","2"," ",
          "1","8"," ","2","4"," ","3","0"," ","4","8"," ","6","0"," ","6",
          "c">>,
      <<"m","a","x","_","t","x","p","o","w","e","r","=","2","0">>,
      <<"b","s","s","[","0","]","=","w","l","a","n","0">>,
      <<"b","s","s","i","d","[","0","]","=","c","c",":","7","b",":","5","c",
          ":","1","a",":","d","2",":","2","1">>,
      <<"s","s","i","d","[","0","]","=","W","i","F","i","-","S","S","I",
          "D">>,
      <<"n","u","m","_","s","t","a","[","0","]","=","0">>,
      <<"b","s","s","[","1","]","=","w","l","a","n","1">>,
      <<"b","s","s","i","d","[","1","]","=","c","c",":","7","b",":","5","c",
          ":","4","d",":","f","f",":","5","c">>,
      <<"s","s","i","d","[","1","]","=","U+00AF","\\","\\","_","(","\\","x",
          "e","3","\\","x","8","3","\\","x","8","4",")","_","/","U+00AF">>,
      <<"n","u","m","_","s","t","a","[","1","]","=","1">>>>

StatusDoc == <<"\n">> \o concat([i \in 1..Len(StatusDocLines) |-> StatusDocLines[i] \o <<"\n">>])

\* the dump with another value for cac_time_left_seconds (or without the
\* key), with or without the edmg keys, with or without ht_caps_info
StatusDump(cac, edmg, ht) ==
    LET line(i) ==
            IF i = 15 THEN cac
            ELSE IF i \in {17, 18} /\ ~edmg THEN <<>>
            ELSE StatusDocLines[i] \o <<"\n">>
    IN  <<"\n">> \o concat([i \in 1..Len(StatusDocLines) |-> line(i)]) \o ht

CacLines ==
    {<<"c","a","c","_","t","i","m","e","_","l","e","f","t","_","s","e","c",
        "o","n","d","s","=","N","/","A","\n">>,
     <<"c","a","c","_","t","i","m","e","_","l","e","f","t","_","s","e","c",
        "o","n","d","s","=","0","\n">>,
     <<"c","a","c","_","t","i","m","e","_","l","e","f","t","_","s","e","c",
        "o","n","d","s","=","\n">>,
     <<>>}

HtLines ==
    {<<>>,
     <<"h","t","_","c","a","p","s","_","i","n","f","o","=","0","0","0","c",
        "\n">>}

StatusInputs ==
    {Input(Status, StatusDump(cac, edmg, ht)) :
        cac \in CacLines, edmg \in BOOLEAN, ht \in HtLines}

Inputs == IndexInputs \cup CoerceInputs \cup ConfigInputs \cup StatusInputs

(***************************************************************************)
(* Specification of config::from_str                                       *)
(***************************************************************************)
InitConfig ==
    /\ pc = "from_str"
    /\ \E in \in Inputs : block = in.s /\ shape = in.T
    /\ map = <<>> /\ result = Pending
    /\ escaped = <<>> /\ unescaped = Pending
    /\ response = <<>> /\ todo = <<>> /\ results = <<>> /\ warned = <<>>
    /\ ret = Pending
    /\ cmdq = <<>> /\ inbox = <<>> /\ sent = <<>> /\ received = <<>>
    /\ published = <<>> /\ notified = 0 /\ failedAt = -1

\* config::from_str: the loop over s.trim().lines() fills `map` or returns
\* an error; T::deserialize(MapDeserializer::new(map.into_iter())) then
\* yields the result
FromStr ==
    /\ pc = "from_str"
    /\ LET r == from_str_lines(<<>>, lines(trim(block))) IN
       IF r.ok
       THEN map' = r.val /\ result' \in deserialize_struct(shape, r.val)
       ELSE result' = r /\ UNCHANGED map
    /\ pc' = "done"
    /\ UNCHANGED <<block, shape, unprintfVars, listVars, socketVars>>

NextConfig == FromStr

SpecConfig == InitConfig /\ [][NextConfig]_vars

(***************************************************************************)
(* How the claims read a block: the key, index and value of a line         *)
(***************************************************************************)
\* the text before the first '=' (the whole line when it has none)
KeyPart(l) == IF find(l, "=") = 0 THEN l ELSE SubSeq(l, 1, find(l, "=") - 1)
LineValue(l) == SubSeq(l, find(l, "=") + 1, Len(l))
Bracketed(l) == find(KeyPart(l), "[") # 0
LineKey(l) ==
    trim(IF Bracketed(l) THEN SubSeq(KeyPart(l), 1, find(KeyPart(l), "[") - 1)
         ELSE KeyPart(l))
\* a number: digits, after an optional plus sign
IsNumber(s) ==
    LET d == IF s # <<>> /\ Head(s) = "+" THEN Tail(s) ELSE s IN
    d # <<>> /\ \A i \in 1..Len(d) : d[i] \in Digit

\* the text between the first '[' of the key and the key's last character
IndexText(l) ==
    SubSeq(KeyPart(l), find(KeyPart(l), "[") + 1, Len(KeyPart(l)) - 1)

\* the key is name[number], with nothing after the ']'
GoodKey(l) ==
    Bracketed(l) =>
        /\ KeyPart(l)[Len(KeyPart(l))] = "]"
        /\ IsNumber(IndexText(l))

\* a line without brackets counts as index 0
LineIndex(l) ==
    IF ~Bracketed(l) THEN 0
    ELSE IF Head(IndexText(l)) = "+" THEN to_nat(canonical(Tail(IndexText(l))))
    ELSE to_nat(canonical(IndexText(l)))

HasEq(l) == \E i \in 1..Len(l) : l[i] = "="

BlockLines == lines(trim(block))

LinesOf(k) == LET mine(l) == LineKey(l) = k IN SelectSeq(BlockLines, mine)

(***************************************************************************)
(* C2                                                                      *)
(***************************************************************************)
\* C2: from_str accepts a block only if every key's indices appear in the
\* order 0,1,2,... without gap or repeat (a line without brackets counts as
\* index 0); when it accepts, the sequence decoded for a key has one element
\* per line of that key, in line order.  So foo[1] before foo[0], and foo[0]
\* twice, are rejected.
C2_IndicesInOrder ==
    pc = "done" /\ result.ok =>
        /\ \A j \in 1..Len(BlockLines) :
               LineIndex(BlockLines[j]) =
                   Cardinality({i \in 1..(j - 1) :
                                   LineKey(BlockLines[i]) = LineKey(BlockLines[j])})
        /\ \A n \in 1..Len(shape) :
               shape[n].ty.ctor = "Vec" =>
                   LET mine == LinesOf(shape[n].name)
                       got == result.val[shape[n].name].v
                   IN  /\ Len(got) = Len(mine)
                       /\ \A e \in 1..Len(mine) :
                              Ok(got[e]) = deserialize_scalar(<<LineValue(mine[e])>>,
                                                              shape[n].ty.base)

\* foo[0], foo[1], foo[2] in that order were decoded to three elements
C2_Witness ==
    /\ pc = "done" /\ result.ok
    /\ shape = Probe(Vec("String"))
    /\ Len(LinesOf(k_foo)) = 3
    /\ result.val[k_foo].v = <<String_(<<98>>), String_(<<99>>), String_(<<100>>)>>

(***************************************************************************)
(* C5                                                                      *)
(***************************************************************************)
\* C5: Status::from_response succeeds on the status dump of its doc test
\* (unknown keys edmg_*, no ht_caps_info and ht_mcs_bitmask,
\* cac_time_left_seconds=N/A) and yields state, freq and the sequences ssid
\* and num_sta in index order.
C5_StatusDocDecodes ==
    pc = "done" /\ shape = Status /\ block = StatusDoc =>
        /\ result.ok
        /\ result.val[k_state] = String_(as_bytes(<<"E","N","A","B","L","E","D">>))
        /\ result.val[k_freq] = Int_(FALSE, <<"2","4","3","7">>)
        /\ result.val[k_ssid] =
               Vec_(<<String_(as_bytes(<<"W","i","F","i","-","S","S","I","D">>)),
                      String_(as_bytes(<<"U+00AF","\\","_","(","U+30C4",")","_",
                                         "/","U+00AF">>))>>)
        /\ result.val[k_num_sta] =
               Vec_(<<Int_(FALSE, <<"0">>), Int_(FALSE, <<"1">>)>>)

(***************************************************************************)
(* C6                                                                      *)
(***************************************************************************)
Numeric == {"u32", "u64", "i32"}

\* the fields of T that hold a number or a boolean, with the raw value the
\* block gives them, when that value cannot be coerced
Uncoercible ==
    {n \in 1..Len(shape) :
        /\ shape[n].ty.ctor \in {"Scalar", "Option"}
        /\ shape[n].ty.base \in Numeric \cup {"bool"}
        /\ shape[n].name \in DOMAIN map
        /\ Len(map[shape[n].name]) = 1
        /\ LET v == map[shape[n].name][1] IN
           /\ shape[n].ty.ctor = "Option" => v # <<>>
           /\ IF shape[n].ty.base = "bool"
              THEN v \notin BoolTrue \cup BoolFalse
              ELSE ~parse_int(v, shape[n].ty.base).ok}

\* A message of the decoder is a fixed text followed by at most one formatted
\* value: it names a field, or carries a raw value, when that value is it.
NamesField(r, name) == r.err = "SerdeError" /\ r.arg = name
CarriesValue(r, v) == r.err = "SerdeError" /\ r.arg = v

\* C6 as stated: a value that cannot be coerced makes from_str return a
\* type-mismatch error that names the field and carries the raw value.
C6_ErrorNamesFieldAndValue ==
    pc = "done" =>
        \A n \in Uncoercible :
            /\ ~result.ok
            /\ \E f \in Uncoercible :
                   /\ CarriesValue(result, map[shape[f].name][1])
                   /\ NamesField(result, shape[f].name)

\* C6 as amended: a value that cannot be coerced makes from_str return a
\* SerdeError and no record; for a boolean the message is "Invalid bool "
\* followed by the raw value, for a number it is the integer parser's
\* message, which carries neither the field nor the value.
C6_CoercionFails ==
    pc = "done" =>
        \A n \in Uncoercible :
            /\ ~result.ok
            /\ result.err = "SerdeError"
            /\ Cardinality({k \in DOMAIN map : ~entry_value(shape, map, k).ok}) = 1
                   => IF shape[n].ty.base = "bool"
                      THEN result.text = "Invalid bool "
                           /\ result.arg = map[shape[n].name][1]
                      ELSE result.text \in
                               {"invalid digit found in string",
                                "cannot parse integer from empty string",
                                "number too large to fit in target type",
                                "number too small to fit in target type"}
                           /\ result.arg = <<>>

\* a boolean field given "maybe", and a number given "1x", were refused
C6_Witness ==
    /\ pc = "done" /\ ~result.ok
    /\ shape \in {Probe(Scalar("bool")), Probe(Scalar("u32"))}
    /\ k_foo \in DOMAIN map
    /\ map[k_foo] \in {<<<<"m","a","y","b","e">>>>, <<<<"1","x">>>>}

(***************************************************************************)
(* C8                                                                      *)
(***************************************************************************)
ConfigOptional == {k_key_mgmt, k_group_cipher, k_rsn_pairwise_cipher, k_wpa_pairwise_cipher}
ConfigRequired == {k_bssid, k_ssid, k_wps_state}

\* C8: in an ap::Config decoded by from_str an optional field whose key is
\* missing, or present with an empty value, is absent and never an empty
\* string; a missing wpa is 0; a missing required key fails the decode.
C8_ConfigOptionals ==
    pc = "done" /\ shape = Config =>
        /\ result.ok =>
               /\ \A k \in ConfigOptional :
                      /\ (k \notin DOMAIN map \/ map[k] = <<<<>>>>)
                             => result.val[k] = None_
                      /\ result.val[k] # Some_(String_(<<>>))
               /\ k_wpa \notin DOMAIN map => result.val[k_wpa] = Int_(FALSE, <<"0">>)
        /\ (\E k \in ConfigRequired : k \notin {LineKey(BlockLines[i]) : i \in 1..Len(BlockLines)})
               => ~result.ok

\* a dump without wpa and group_cipher and with an empty key_mgmt was decoded
C8_Witness ==
    /\ pc = "done" /\ shape = Config /\ result.ok
    /\ k_key_mgmt \in DOMAIN map /\ map[k_key_mgmt] = <<<<>>>>
    /\ k_group_cipher \notin DOMAIN map
    /\ k_wpa \notin DOMAIN map
    /\ result.val[k_key_mgmt] = None_
    /\ result.val[k_rsn_pairwise_cipher] = Some_(String_(as_bytes(<<"C","C","M","P">>)))

(***************************************************************************)
(* C9                                                                      *)
(***************************************************************************)
\* C9: a scalar field (string, number, boolean or optional) whose key
\* recorded more than one value makes from_str fail; a sequence field whose
\* key recorded exactly one value, indexed [0] or not, is a sequence of that
\* one element.
C9_ScalarOfManySeqOfOne ==
    pc = "done" =>
        \A n \in 1..Len(shape) :
            LET name == shape[n].name IN
            name \in DOMAIN map =>
                /\ shape[n].ty.ctor \in {"Scalar", "Option"} /\ Len(map[name]) > 1
                       => ~result.ok
                /\ shape[n].ty.ctor = "Vec" /\ Len(map[name]) = 1
                       => /\ result.ok => Len(result.val[name].v) = 1
                          /\ result.ok <=>
                                 \A k \in DOMAIN map : entry_value(shape, map, k).ok
                          /\ result.text # "did not expect seq"

\* foo[0] and foo[1] were read for a number, and refused
C9_Witness ==
    /\ pc = "done" /\ ~result.ok
    /\ shape = Probe(Scalar("u32"))
    /\ k_foo \in DOMAIN map /\ Len(map[k_foo]) = 2
    /\ result.text = "did not expect seq"

(***************************************************************************)
(* C10                                                                     *)
(***************************************************************************)
WellFormed(l) == HasEq(l) /\ GoodKey(l)

\* the first line of the block that has no '=' or a bad key, or 0
FirstIllFormed ==
    IF \E j \in 1..Len(BlockLines) : ~WellFormed(BlockLines[j])
    THEN CHOOSE j \in 1..Len(BlockLines) :
             /\ ~WellFormed(BlockLines[j])
             /\ \A i \in 1..(j - 1) : WellFormed(BlockLines[i])
    ELSE 0

\* C10: from_str rejects the block when any line of the trimmed block has no
\* '=' (MissingDelimterEqual), or a key with '[' whose index is no number or
\* is followed by more text after ']' (a SerdeError); '=' and '[' in the
\* value part cause neither error.  An index out of order on an earlier line
\* is reported first.
C10_IllFormedLines ==
    pc = "done" =>
        /\ FirstIllFormed # 0 =>
               /\ ~result.ok
               /\ result.text # "Duplicate key" =>
                      IF ~HasEq(BlockLines[FirstIllFormed])
                      THEN result.err = "MissingDelimterEqual"
                      ELSE /\ result.err = "SerdeError"
                           /\ result.text \in
                                  {"invalid key", "invalid digit found in string",
                                   "cannot parse integer from empty string"}
        /\ FirstIllFormed = 0 =>
               /\ result.err # "MissingDelimterEqual"
               /\ result.text # "invalid key"
               /\ map = <<>> /\ BlockLines # <<>> => result.text = "Duplicate key"

\* a block with an interior blank line (followed by a line whose value holds
\* '[' and '=') was rejected for the blank line
C10_Witness ==
    /\ pc = "done"
    /\ Len(BlockLines) = 3 /\ BlockLines[2] = <<>>
    /\ WellFormed(BlockLines[1])
    /\ BlockLines[3] = <<"b","a","r","=","[","=">>
    /\ result.err = "MissingDelimterEqual"

(***************************************************************************)
(* sta::ScanResult                                                         *)
(***************************************************************************)
Some(v) == [some |-> TRUE, val |-> v]
None == [some |-> FALSE, val |-> <<>>]

\* an isize::from_str that reads a signal it cannot parse as 0
isize_from_str_or_zero(s) ==
    IF parse_int(s, "isize").ok THEN parse_int(s, "isize")
    ELSE Ok([t |-> "Int", v |-> [neg |-> FALSE, digits |-> <<"0">>]])

\* isize::from_str(signal)
isize_from_str(s) == parse_int(s, "isize")

\* the unescape loop written out in from_line: `i` is the iterator's
\* position in `bytes`, `name` the vector built; any failure is None
\* an unescape loop without the arm for \e: the byte after the backslash is
\* taken as it is
RECURSIVE from_line_name_without_e(_, _, _)
from_line_name_without_e(bytes, i, name) ==
    LET n == Len(bytes) IN
    IF i > n THEN Some(name)
    ELSE IF bytes[i] # 92 THEN from_line_name_without_e(bytes, i + 1, Append(name, bytes[i]))
    ELSE IF i + 1 > n THEN None
    ELSE LET c == bytes[i + 1] IN
         IF c = 110 THEN from_line_name_without_e(bytes, i + 2, Append(name, 10))
         ELSE IF c = 114 THEN from_line_name_without_e(bytes, i + 2, Append(name, 13))
         ELSE IF c = 116 THEN from_line_name_without_e(bytes, i + 2, Append(name, 9))
         ELSE IF c = 120 THEN
              IF i + 3 > n THEN None
              ELSE LET hex == <<bytes[i + 2], bytes[i + 3]>> IN
                   IF ~from_utf8_ok(hex) THEN None
                   ELSE IF ~from_str_radix16(hex).ok THEN None
                   ELSE from_line_name_without_e(bytes, i + 4,
                                                 Append(name, from_str_radix16(hex).val))
         ELSE from_line_name_without_e(bytes, i + 2, Append(name, c))

RECURSIVE from_line_name(_, _, _)
from_line_name(bytes, i, name) ==
    LET n == Len(bytes) IN
    IF i > n THEN Some(name)
    ELSE IF bytes[i] # 92 THEN from_line_name(bytes, i + 1, Append(name, bytes[i]))
    ELSE IF i + 1 > n THEN None
    ELSE LET c == bytes[i + 1] IN
         IF c = 110 THEN from_line_name(bytes, i + 2, Append(name, 10))
         ELSE IF c = 114 THEN from_line_name(bytes, i + 2, Append(name, 13))
         ELSE IF c = 116 THEN from_line_name(bytes, i + 2, Append(name, 9))
         ELSE IF c = 101 THEN from_line_name(bytes, i + 2, Append(name, 27))
         ELSE IF c = 120 THEN
              IF i + 3 > n THEN None
              ELSE LET hex == <<bytes[i + 2], bytes[i + 3]>> IN
                   IF ~from_utf8_ok(hex) THEN None
                   ELSE IF ~from_str_radix16(hex).ok THEN None
                   ELSE from_line_name(bytes, i + 4,
                                       Append(name, from_str_radix16(hex).val))
         ELSE from_line_name(bytes, i + 2, Append(name, c))

\* ScanResult::from_line
from_line(line) ==
    LET a == split_once(line, "\t")
        b == split_once(a.r, "\t")
        c == split_once(b.r, "\t")
        d == split_once(c.r, "\t")
        name == from_line_name(as_bytes(d.r), 1, <<>>)
    IN  IF ~a.some THEN None
        ELSE IF ~b.some THEN None
        ELSE IF ~c.some THEN None
        ELSE IF ~isize_from_str(c.l).ok THEN None
        ELSE IF ~d.some THEN None
        ELSE IF ~name.some THEN None
        ELSE IF ~from_utf8_ok(name.val) THEN None
        ELSE Some([mac |-> a.l, frequency |-> b.l,
                   signal |-> isize_from_str(c.l).val, flags |-> d.l,
                   name |-> name.val])

\* Iterator::skip(1)
skip1(ls) == IF ls = <<>> THEN <<>> ELSE Tail(ls)

MaxScanLines == 2

ScanHeader ==
    <<"b","s","s","i","d"," ","/"," ","f","r","e","q","u","e","n","c","y"," ",
      "/"," ","s","i","g","n","a","l"," ","l","e","v","e","l"," ","/"," ","f",
      "l","a","g","s"," ","/"," ","s","s","i","d">>

\* lines of a scan listing: the two of the doc test of vec_from_str, then a
\* line short of fields, a signal that is no number, a name cut in an
\* escape, a name with a bad \x escape, a name that is not UTF-8, a blank
ScanPool ==
    {<<"0","0",":","5","f",":","6","7",":","9","0",":","d","a",":","6","4",
        "\t","2","4","1","7","\t","-","3","5","\t","[","W","P","A","-","P",
        "S","K","-","C","C","M","P","]","[","W","P","A","2","-","P","S","K",
        "-","C","C","M","P","]","[","E","S","S","]","\t","T","P","-","L","i",
        "n","k"," ","D","A","6","4">>,
     <<"e","0",":","9","1",":","f","5",":","7","d",":","1","1",":","c","0",
        "\t","2","4","6","2","\t","-","3","3","\t","[","W","P","A","2","-",
        "P","S","K","-","C","C","M","P","]","[","W","P","S","]","[","E","S",
        "S","]","\t","U+00AF","\\","\\","_","(","\\","x","e","3","\\","x","8",
        "3","\\","x","8","4",")","_","/","U+00AF">>,
     <<"e","0",":","9","1","\t","2","4","6","2","\t","-","3","3">>,
     <<"e","0",":","9","1","\t","2","4","6","2","\t","l","o","w","\t","[",
        "E","S","S","]","\t","n","e","t">>,
     <<"e","0",":","9","1","\t","2","4","6","2","\t","-","3","3","\t","[",
        "E","S","S","]","\t","n","e","t","\\">>,
     <<"e","0",":","9","1","\t","2","4","6","2","\t","-","3","3","\t","[",
        "E","S","S","]","\t","\\","x","G","G">>,
     <<"e","0",":","9","1","\t","2","4","6","2","\t","-","3","3","\t","[",
        "E","S","S","]","\t","\\","x","f","f">>,
     <<>>}

ScanResponses ==
    {ScanHeader \o <<"\n">> \o concat([i \in 1..Len(ls) |-> ls[i] \o <<"\n">>]) :
        ls \in SeqsUpTo(ScanPool, MaxScanLines)}

InitScan ==
    /\ pc = "vec_from_str"
    /\ response \in ScanResponses
    /\ todo = <<>> /\ results = <<>> /\ warned = <<>> /\ ret = Pending
    /\ escaped = <<>> /\ unescaped = Pending
    /\ block = <<>> /\ shape = <<>> /\ map = <<>> /\ result = Pending
    /\ cmdq = <<>> /\ inbox = <<>> /\ sent = <<>> /\ received = <<>>
    /\ published = <<>> /\ notified = 0 /\ failedAt = -1

\* response.lines().skip(1)
ScanBegin ==
    /\ pc = "vec_from_str"
    /\ todo' = skip1(lines(response))
    /\ pc' = "line"
    /\ UNCHANGED <<response, results, warned, ret, unprintfVars, configVars, socketVars>>

\* one iteration of the loop: the line is pushed to results, or reported
ScanLine ==
    /\ pc = "line" /\ todo # <<>>
    /\ IF from_line(Head(todo)).some
       THEN results' = Append(results, from_line(Head(todo)).val) /\ UNCHANGED warned
       ELSE warned' = Append(warned, Head(todo)) /\ UNCHANGED results
    /\ todo' = Tail(todo)
    /\ UNCHANGED <<pc, response, ret, unprintfVars, configVars, socketVars>>

\* Ok(results)
ScanReturn ==
    /\ pc = "line" /\ todo = <<>>
    /\ ret' = Ok(results)
    /\ pc' = "done"
    /\ UNCHANGED <<response, todo, results, warned, unprintfVars, configVars, socketVars>>

NextScan == ScanBegin \/ ScanLine \/ ScanReturn

SpecScan == InitScan /\ [][NextScan]_vars

(***************************************************************************)
(* C4                                                                      *)
(***************************************************************************)
\* the tab-separated fields of a line
RECURSIVE TabFields(_)
TabFields(l) ==
    IF find(l, "\t") = 0 THEN <<l>>
    ELSE <<SubSeq(l, 1, find(l, "\t") - 1)>>
         \o TabFields(SubSeq(l, find(l, "\t") + 1, Len(l)))

\* the name of a line with five fields or more: all the text after the
\* fourth tab
RECURSIVE AfterTabs(_, _)
AfterTabs(l, n) ==
    IF n = 0 THEN l ELSE AfterTabs(SubSeq(l, find(l, "\t") + 1, Len(l)), n - 1)

\* a line decodes: it has the five fields, a numeric signal, and a name
\* whose escapes are complete and valid and which is UTF-8 once unescaped
Decodes(l) ==
    /\ Len(TabFields(l)) >= 5
    /\ parse_int(TabFields(l)[3], "isize").ok
    /\ unprintf(AfterTabs(l, 4)).ok

ListedLines == skip1(lines(response))

\* C4 as stated: when a line after the header fails to decode,
\* ScanResult::vec_from_str returns an error rather than a list without it.
C4_BadLineIsAnError ==
    pc = "done" /\ (\E j \in 1..Len(ListedLines) : ~Decodes(ListedLines[j]))
        => ~ret.ok

\* C4 as amended: a line after the header that fails to decode is reported
\* with a warning and left out; vec_from_str returns Ok with the results of
\* the lines that decode, in order, and never an error.
C4_BadLineIsSkipped ==
    pc = "done" =>
        /\ ret.ok
        /\ warned = SelectSeq(ListedLines, LAMBDA l : ~Decodes(l))
        /\ LET good == SelectSeq(ListedLines, Decodes) IN
           /\ Len(ret.val) = Len(good)
           /\ \A j \in 1..Len(good) :
                  /\ ret.val[j].mac = TabFields(good[j])[1]
                  /\ Ok(ret.val[j].signal) = parse_int(TabFields(good[j])[3], "isize")
                  /\ Ok(ret.val[j].name) = unprintf(AfterTabs(good[j], 4))

\* a listing of one good line and one line with a signal that is no number
\* came back as a list of one
C4_Witness ==
    /\ pc = "done" /\ ret.ok
    /\ Len(ListedLines) = 2 /\ Len(ret.val) = 1 /\ Len(warned) = 1
    /\ Len(TabFields(warned[1])) = 5
    /\ ~parse_int(TabFields(warned[1])[3], "isize").ok

(***************************************************************************)
(* sta::NetworkResult::vec_from_str and the control socket                 *)
(***************************************************************************)
\* str::split(c)
RECURSIVE split(_, _)
split(s, c) ==
    IF find(s, c) = 0 THEN <<s>>
    ELSE <<SubSeq(s, 1, find(s, c) - 1)>> \o split(SubSeq(s, find(s, c) + 1, Len(s)), c)

\* str::split_whitespace
RECURSIVE split_whitespace(_)
split_whitespace(s) ==
    LET t == trim_start(s) IN
    IF t = <<>> THEN <<>>
    ELSE LET ws == {i \in 1..Len(t) : t[i] \in WhiteSpace}
             e == IF ws = {} THEN Len(t) + 1
                  ELSE CHOOSE i \in ws : \A j \in ws : i <= j
         IN  <<SubSeq(t, 1, e - 1)>> \o split_whitespace(SubSeq(t, e, Len(t)))

\* str::trim_matches(c)
RECURSIVE trim_matches(_, _)
trim_matches(s, c) ==
    IF s # <<>> /\ Head(s) = c THEN trim_matches(Tail(s), c)
    ELSE IF s # <<>> /\ s[Len(s)] = c THEN trim_matches(SubSeq(s, 1, Len(s) - 1), c)
    ELSE s

\* format!("GET_NETWORK {network_id} ssid")
get_network(network_id) ==
    <<"G","E","T","_","N","E","T","W","O","R","K"," ">> \o network_id
    \o <<" ","s","s","i","d">>

\* line_split.last(), after next() took the first token
last_after_first(tokens) ==
    IF Len(tokens) >= 2 THEN Some(tokens[Len(tokens)]) ELSE None

MaxNetLines == 3
MaxNotifications == 1

NetHeader ==
    <<"n","e","t","w","o","r","k"," ","i","d"," ","/"," ","s","s","i","d"," ",
      "/"," ","b","s","s","i","d"," ","/"," ","f","l","a","g","s">>

\* lines of a LIST_NETWORKS reply: two networks, a line whose id is no
\* number, a blank line, a line with an id alone
NetPool ==
    {<<"0","\t","h","o","m","e","\t","a","n","y","\t","[","C","U","R","R",
        "E","N","T","]">>,
     <<"1","\t","w","o","r","k","\t","a","n","y","\t","[","D","I","S","A",
        "B","L","E","D","]">>,
     <<"x","\t","b","a","d","\t","a","n","y">>,
     <<>>,
     <<"7">>}

NetResponses ==
    {NetHeader \o <<"\n">> \o concat([i \in 1..Len(ls) |-> ls[i] \o <<"\n">>]) :
        ls \in SeqsUpTo(NetPool, MaxNetLines)}

\* the daemon's reply to a command: the ssid of a network it knows, in
\* quotes, or FAIL
DaemonReplyText(cmd) ==
    IF cmd = get_network(<<"0">>) THEN <<"\"","h","o","m","e","\"">>
    ELSE IF cmd = get_network(<<"1">>) THEN <<"\"","w","o","r","k","\"">>
    ELSE <<"F","A","I","L">>

\* an unsolicited event of the daemon: it starts with a priority tag
NotificationText ==
    <<"<","3",">","C","T","R","L","-","E","V","E","N","T","-","S","C","A","N",
      "-","R","E","S","U","L","T","S">>

\* a datagram on the socket: its text, and what the daemon sent it as
Datagram(text, kind) == [text |-> text, kind |-> kind]

InitNet ==
    /\ pc = "vec_from_str"
    /\ response \in NetResponses
    /\ todo = <<>> /\ results = <<>> /\ warned = <<>> /\ ret = Pending
    /\ cmdq = <<>> /\ inbox = <<>> /\ sent = <<>> /\ received = <<>>
    /\ published = <<>> /\ notified = 0 /\ failedAt = -1
    /\ escaped = <<>> /\ unescaped = Pending
    /\ block = <<>> /\ shape = <<>> /\ map = <<>> /\ result = Pending

\* response.split('\n').skip(1)
NetBegin ==
    /\ pc = "vec_from_str"
    /\ todo' = skip1(split(response, "\n"))
    /\ pc' = "line"
    /\ UNCHANGED <<response, results, warned, ret, socketVars, unprintfVars, configVars>>

\* the head of the loop body: a line without a token is passed over; for any
\* other line the command is sent, and the send succeeds or fails
NetLine ==
    /\ pc = "line" /\ todo # <<>>
    /\ LET tokens == split_whitespace(Head(todo)) IN
       \/ /\ tokens = <<>>
          /\ todo' = Tail(todo)
          /\ UNCHANGED <<pc, ret, cmdq, sent, failedAt>>
       \/ /\ tokens # <<>>
          /\ sent' = Append(sent, get_network(tokens[1]))
          /\ cmdq' = Append(cmdq, get_network(tokens[1]))
          /\ pc' = "recv"
          /\ UNCHANGED <<todo, ret, failedAt>>
       \/ /\ tokens # <<>>
          /\ ret' = Err("Io")
          /\ failedAt' = Len(sent)
          /\ pc' = "done"
          /\ UNCHANGED <<todo, cmdq, sent>>
    /\ UNCHANGED <<response, results, warned, inbox, received, published, notified,
                   unprintfVars, configVars>>

\* socket.recv(&mut buffer).await? succeeds: the next datagram on the socket
\* is taken as the reply, whatever it is
NetRecv ==
    /\ pc = "recv" /\ inbox # <<>>
    /\ received' = Append(received, Head(inbox))
    /\ inbox' = Tail(inbox)
    /\ LET tokens == split_whitespace(Head(todo))
           text == Head(inbox).text
           ssid == trim_matches(text, "\"")
           network_id == parse_int(tokens[1], "usize")
           flags == last_after_first(tokens)
       IN  IF ~from_utf8_ok(as_bytes(text))
           THEN /\ ret' = Err("Utf8") /\ failedAt' = Len(sent) /\ pc' = "done"
                /\ UNCHANGED <<todo, results, warned>>
           ELSE /\ pc' = "line" /\ todo' = Tail(todo)
                /\ UNCHANGED <<ret, failedAt>>
                /\ IF network_id.ok
                   THEN /\ results' =
                               IF flags.some
                               THEN Append(results, [flags |-> flags.val, ssid |-> ssid,
                                                     network_id |-> network_id.val])
                               ELSE results
                        /\ UNCHANGED warned
                   ELSE /\ warned' = Append(warned, tokens[1])
                        /\ UNCHANGED results
    /\ UNCHANGED <<response, cmdq, sent, published, notified, unprintfVars, configVars>>

\* a failed receive that is passed over: the loop goes on with the next line
NetRecvFails_goes_on ==
    /\ pc = "recv"
    /\ failedAt' = Len(sent)
    /\ todo' = Tail(todo)
    /\ pc' = "line"
    /\ UNCHANGED <<response, results, warned, ret, cmdq, inbox, sent, received,
                   published, notified, unprintfVars, configVars>>

\* socket.recv(&mut buffer).await? fails
NetRecvFails ==
    /\ pc = "recv"
    /\ ret' = Err("Io")
    /\ failedAt' = Len(sent)
    /\ pc' = "done"
    /\ UNCHANGED <<response, todo, results, warned, cmdq, inbox, sent, received,
                   published, notified, unprintfVars, configVars>>

\* Ok(results)
NetReturn ==
    /\ pc = "line" /\ todo = <<>>
    /\ ret' = Ok(results)
    /\ pc' = "done"
    /\ UNCHANGED <<response, todo, results, warned, socketVars, unprintfVars, configVars>>

\* the daemon answers the oldest command it has not answered
DaemonReply ==
    /\ cmdq # <<>>
    /\ inbox' = Append(inbox, Datagram(DaemonReplyText(Head(cmdq)), "reply"))
    /\ cmdq' = Tail(cmdq)
    /\ UNCHANGED <<pc, listVars, sent, received, published, notified, failedAt,
                   unprintfVars, configVars>>

\* the daemon emits an event, whether or not a command is waiting
DaemonNotify ==
    /\ pc \in {"line", "recv"}
    /\ notified < MaxNotifications
    /\ inbox' = Append(inbox, Datagram(NotificationText, "notification"))
    /\ notified' = notified + 1
    /\ UNCHANGED <<pc, listVars, cmdq, sent, received, published, failedAt,
                   unprintfVars, configVars>>

NextNet ==
    NetBegin \/ NetLine \/ NetRecv \/ NetRecvFails \/ NetReturn
    \/ DaemonReply \/ DaemonNotify

SpecNet == InitNet /\ [][NextNet]_vars

(***************************************************************************)
(* Claims about the known-network listing                                  *)
(***************************************************************************)
\* a datagram text that begins with a priority tag: "<", digits, ">"
IsNotification(text) ==
    /\ Len(text) >= 3
    /\ text[1] = "<"
    /\ \E k \in 3..Len(text) :
          /\ text[k] = ">"
          /\ \A j \in 2..(k - 1) : text[j] \in Digit

\* C1: during a known-network listing no notification is taken for a reply:
\* every datagram the listing receives is the daemon's reply to the command
\* sent just before it, every notification that arrived is published, and
\* the ssid stored for a network is the text of the daemon's reply to that
\* network's GET_NETWORK command.
C1_NotificationNeverTakenAsReply ==
    /\ \A i \in 1..Len(received) :
          /\ ~IsNotification(received[i].text)
          /\ received[i].text = DaemonReplyText(sent[i])
    /\ \A i \in 1..Len(received) :
          IsNotification(received[i].text) =>
              \E j \in 1..Len(published) : published[j] = received[i].text
    /\ \A i \in 1..Len(results) :
          results[i].ssid =
              trim_matches(DaemonReplyText(get_network(results[i].network_id.v.digits)),
                           "\"")

\* the lines after the header that hold a character that is no white space,
\* each as the command its first token asks for
RECURSIVE FirstToken(_)
FirstToken(l) ==
    IF l = <<>> \/ Head(l) \in WhiteSpace THEN <<>>
    ELSE <<Head(l)>> \o FirstToken(Tail(l))

RECURSIVE LeadingCut(_)
LeadingCut(l) ==
    IF l # <<>> /\ Head(l) \in WhiteSpace THEN LeadingCut(Tail(l)) ELSE l

RECURSIVE ExpectedCommands(_)
ExpectedCommands(ls) ==
    IF ls = <<>> THEN <<>>
    ELSE IF \A i \in 1..Len(Head(ls)) : Head(ls)[i] \in WhiteSpace
    THEN ExpectedCommands(Tail(ls))
    ELSE <<get_network(FirstToken(LeadingCut(Head(ls))))>> \o ExpectedCommands(Tail(ls))

NetLinesAfterHeader == skip1(split(response, "\n"))

C3_FailureWitness ==
    /\ pc = "done" /\ ~ret.ok
    /\ failedAt = 1
    /\ Len(ExpectedCommands(NetLinesAfterHeader)) = 2

(***************************************************************************)
(* The two unescape loops side by side: config::unprintf and the loop      *)
(* written inline in ScanResult::from_line, on the same escaped text       *)
(***************************************************************************)
\* characters of an escaped name: the backslash, the five letters that
\* have an arm of their own, hex digits, a sign, a two-byte character
NameChar == {"\\", "x", "n", "r", "t", "e", "4", "f", "+", "U+00AF"}

\* the four fields of a scan line that precede the name
NamePrefix ==
    <<"e","0",":","9","1","\t","2","4","6","2","\t","-","3","3","\t","[","E",
      "S","S","]","\t">>

\* the escaped text of tests::test_deserializer and of the doc test of
\* ScanResult::vec_from_str, and what both expect it to decode to
ShrugEscaped ==
    <<"U+00AF","\\","\\","_","(","\\","x","e","3","\\","x","8","3","\\","x",
      "8","4",")","_","/","U+00AF">>

Shrug == <<"U+00AF","\\","_","(","U+30C4",")","_","/","U+00AF">>

InitUnescape ==
    /\ pc = "unescape"
    /\ escaped \in SeqsUpTo(NameChar, MaxEscLen) \cup {ShrugEscaped}
    /\ response = NamePrefix \o escaped
    /\ unescaped = Pending
    /\ todo = <<>> /\ results = <<>> /\ warned = <<>> /\ ret = Pending
    /\ block = <<>> /\ shape = <<>> /\ map = <<>> /\ result = Pending
    /\ cmdq = <<>> /\ inbox = <<>> /\ sent = <<>> /\ received = <<>>
    /\ published = <<>> /\ notified = 0 /\ failedAt = -1

\* unprintf(escaped)
UnescapeByUnprintf ==
    /\ pc = "unescape" /\ unescaped = Pending
    /\ unescaped' = unprintf(escaped)
    /\ pc' = IF results # <<>> \/ warned # <<>> THEN "done" ELSE pc
    /\ UNCHANGED <<escaped, configVars, listVars, socketVars>>

\* ScanResult::from_line(line), the line being the prefix and the escaped
\* name: Some is kept in results, None is kept as the line in warned
UnescapeByFromLine ==
    /\ pc = "unescape" /\ results = <<>> /\ warned = <<>>
    /\ IF from_line(response).some
       THEN results' = <<from_line(response).val>> /\ UNCHANGED warned
       ELSE warned' = <<response>> /\ UNCHANGED results
    /\ pc' = IF unescaped # Pending THEN "done" ELSE pc
    /\ UNCHANGED <<response, todo, ret, unprintfVars, configVars, socketVars>>

NextUnescape == UnescapeByUnprintf \/ UnescapeByFromLine

SpecUnescape == InitUnescape /\ [][NextUnescape]_vars

(***************************************************************************)
(* Claim about the two unescape loops                                      *)
(***************************************************************************)
\* the letters after a backslash that have an arm of their own
EscapeLetter == {"n", "r", "t", "e", "x"}

\* the name from_line decodes for an escaped text behind the prefix
NameOf(s) == from_line(NamePrefix \o s)

\* the first backslash of the escaped text is followed by a character that
\* has no arm of its own
PlainEscapeFirst ==
    LET k == find(escaped, "\\") IN
    k > 0 /\ k < Len(escaped) /\ escaped[k + 1] \notin EscapeLetter

\* the text before the first backslash, the character after it, the rest
BeforeEscape == SubSeq(escaped, 1, find(escaped, "\\") - 1)
EscapedChar == <<escaped[find(escaped, "\\") + 1]>>
AfterEscape == SubSeq(escaped, find(escaped, "\\") + 2, Len(escaped))

\* C11: the unescape loop written inline in ScanResult::from_line and
\* config::unprintf are the same function: on the same escaped text
\* from_line yields Some with the name s exactly when unprintf yields Ok(s),
\* and None exactly when unprintf yields an error; in both a backslash
\* followed by a byte other than n, r, t, e, x yields that byte alone, and a
\* text without a backslash decodes to itself.
C11_SameUnescape ==
    pc = "done" =>
        /\ unescaped.ok <=> results # <<>>
        /\ ~unescaped.ok <=> warned # <<>>
        /\ unescaped.ok => results[1].name = unescaped.val
        /\ ~unescaped.ok =>
              unescaped.err \in {"IncompleteEscape", "InvalidEscape", "NonUtf8Escape"}
        /\ escaped = ShrugEscaped =>
              /\ unescaped = Ok(as_bytes(Shrug))
              /\ results # <<>> /\ results[1].name = as_bytes(Shrug)
        /\ find(escaped, "\\") = 0 =>
              /\ unescaped = Ok(as_bytes(escaped))
              /\ results # <<>> /\ results[1].name = as_bytes(escaped)
        /\ PlainEscapeFirst =>
              /\ unescaped =
                    IF unprintf(AfterEscape).ok
                    THEN Ok(as_bytes(BeforeEscape) \o as_bytes(EscapedChar)
                            \o unprintf(AfterEscape).val)
                    ELSE unprintf(AfterEscape)
              /\ results # <<>> <=> NameOf(AfterEscape).some
              /\ results # <<>> =>
                    results[1].name =
                        as_bytes(BeforeEscape) \o as_bytes(EscapedChar)
                        \o NameOf(AfterEscape).val.name

\* both loops have decoded \\\e: a backslash that stands for itself, then
\* the escape for the byte 0x1b
C11_Witness ==
    /\ pc = "done"
    /\ escaped = <<"\\", "\\", "\\", "e">>
    /\ unescaped = Ok(<<92, 27>>)
    /\ results # <<>> /\ results[1].name = <<92, 27>>

\* both loops have refused \xff: the byte 0xff alone is no UTF-8
C11_RefusedWitness ==
    /\ pc = "done"
    /\ escaped = <<"\\", "x", "f", "f">>
    /\ unescaped = Err("NonUtf8Escape")
    /\ results = <<>> /\ warned # <<>>

====
